---- MODULE Spec2Model ----
(***************************************************************************)
(* Fast Walsh transforms of the fwt crate (src/lib.rs): sequency,          *)
(* hadamard, power_of_2 and scale, modelled statement by statement.        *)
(*                                                                         *)
(* A behaviour is one run of a small caller: it picks an input and a       *)
(* script of calls (a transform applied twice and then scaled, as in       *)
(* test_scaling; both transforms on the same input; scale alone;           *)
(* power_of_2 alone) and executes the calls one loop step at a time.       *)
(*                                                                         *)
(* Vec elements are exact integers.  usize values of the loop counters     *)
(* are naturals; usize values whose width matters (the argument of         *)
(* power_of_2, the bound length - 2 of the permutation loop) are words of  *)
(* UsizeBits bits, least significant bit first.  An f64 produced by scale  *)
(* is the reduced fraction <<numerator, denominator>>, which is exact for  *)
(* the integer inputs and power-of-two lengths of the round trip.          *)
(***************************************************************************)
EXTENDS Integers, Sequences, FiniteSets, TLC

MaxLen == 8
MaxVal == 1
UsizeBits == 64

VARIABLES script, sp, input, word, results, bret,
          fn, pc, input_v, v, length, iend,
          i, j, k, offset, lag, ngroups, group, base

vars == <<script, sp, input, word, results, bret,
          fn, pc, input_v, v, length, iend,
          i, j, k, offset, lag, ngroups, group, base>>

harness == <<script, input, word>>

(***************************************************************************)
(* usize words                                                             *)
(***************************************************************************)
BitIdx == 1..UsizeBits

\* the word of a small natural x (x < 2^30)
Bits(x) == [b \in BitIdx |-> IF b <= 30 THEN (x \div 2^(b-1)) % 2 ELSE 0]

UZero == [b \in BitIdx |-> 0]
UOne == Bits(1)
UTwo == Bits(2)
UMax == [b \in BitIdx |-> 1]

\* a < m on the bits below bit b, which is also the borrow that bit b of
\* a - m takes from the lower bits
LessBelow(a, m, b) ==
  \E c \in 1..(b - 1) : /\ a[c] < m[c]
                        /\ \A d \in (c + 1)..(b - 1) : a[d] = m[d]

\* a - m on usize: the wrapped difference and whether it overflowed
USub(a, m) ==
  [val |-> [b \in BitIdx |->
              (a[b] - m[b] - (IF LessBelow(a, m, b) THEN 1 ELSE 0) + 2) % 2],
   overflow |-> LessBelow(a, m, UsizeBits + 1)]

UAnd(a, m) == [b \in BitIdx |-> a[b] * m[b]]

ULess(a, m) == LessBelow(a, m, UsizeBits + 1)

\* what an overflowing usize subtraction can do: panic when the build has
\* overflow checks (debug), wrap when it has not (release)
SubOutcomes(d) ==
  IF d.overflow
  THEN {[panic |-> TRUE, val |-> d.val], [panic |-> FALSE, val |-> d.val]}
  ELSE {[panic |-> FALSE, val |-> d.val]}

(***************************************************************************)
(* Option values and f64 quotients                                         *)
(***************************************************************************)
Some(x) == [some |-> TRUE, val |-> x]
None == [some |-> FALSE, val |-> <<>>]

Abs(x) == IF x < 0 THEN -x ELSE x

RECURSIVE Gcd(_, _)
Gcd(a, b) == IF b = 0 THEN a ELSE Gcd(b, a % b)

\* f64::from(x) / (len as f64): <<0,0>> is NaN, <<1,0>> and <<-1,0>> the
\* infinities
F64Div(x, len) ==
  IF len = 0 THEN <<(IF x > 0 THEN 1 ELSE IF x < 0 THEN -1 ELSE 0), 0>>
  ELSE LET g == Gcd(Abs(x), len) IN <<x \div g, len \div g>>

(***************************************************************************)
(* power_of_2                                                              *)
(***************************************************************************)
\* the bit trick without the zero arm
power_of_2_unguarded(w) ==
  { [panic |-> o.panic, ret |-> UAnd(w, o.val) = UZero] :
      o \in SubOutcomes(USub(w, UOne)) }

\* match n { 0 => false, _ => n & (n - 1) == 0 }: the outcomes of one call,
\* each a returned bool or a panic
power_of_2(w) ==
  IF w = UZero
  THEN {[panic |-> FALSE, ret |-> FALSE]}
  ELSE { [panic |-> o.panic, ret |-> UAnd(w, o.val) = UZero] :
           o \in SubOutcomes(USub(w, UOne)) }

(***************************************************************************)
(* the caller                                                              *)
(***************************************************************************)
RoundTrip(T) == << [fn |-> T, arg |-> "input"],
                   [fn |-> T, arg |-> "prev"],
                   [fn |-> "scale", arg |-> "prev"] >>
Compare == << [fn |-> "hadamard", arg |-> "input"],
              [fn |-> "sequency", arg |-> "input"] >>
ScaleOnly == << [fn |-> "scale", arg |-> "input"] >>
PowerOf2Only == << [fn |-> "power_of_2", arg |-> "word"] >>

VecScripts == {RoundTrip("sequency"), RoundTrip("hadamard"), Compare, ScaleOnly}

Vals == 0..MaxVal
Inputs == UNION { [1..len -> Vals] : len \in 0..MaxLen }

OneBit(b) == [c \in BitIdx |-> IF c = b THEN 1 ELSE 0]
Words ==
  {UZero, UMax}
  \cup { Bits(x) : x \in 0..(8 * MaxLen) }
  \cup { OneBit(b) : b \in BitIdx }
  \cup { [c \in BitIdx |-> IF c = b1 \/ c = b2 THEN 1 ELSE 0] :
            b1 \in BitIdx, b2 \in {1, 2, 32, 33, UsizeBits} }
  \cup { [c \in BitIdx |-> IF c = b THEN 0 ELSE 1] : b \in BitIdx }

\* the usize results the calls need, evaluated once: power_of_2(length) and
\* length - 2 for every length, power_of_2(n) for every word n
P2OfLen == [len \in 0..MaxLen |-> power_of_2(Bits(len))]
PermBound == [len \in 0..MaxLen |-> SubOutcomes(USub(Bits(len), UTwo))]
P2OfWord == [w \in Words |-> power_of_2(w)]

Init ==
  /\ \/ script \in VecScripts /\ input \in Inputs /\ word = UZero
     \/ script = PowerOf2Only /\ input = <<>> /\ word \in Words
  /\ sp = 1
  /\ results = <<>>
  /\ bret = <<>>
  /\ fn = "none"
  /\ pc = "idle"
  /\ input_v = <<>>
  /\ v = <<>>
  /\ length = 0
  /\ iend = UZero
  /\ i = 0 /\ j = 0 /\ k = 0
  /\ offset = 0 /\ lag = 0 /\ ngroups = 0 /\ group = 0 /\ base = 0

ArgReady ==
  /\ sp <= Len(script)
  /\ script[sp].arg = "prev" => results[Len(results)].some

\* the caller makes the next call of its script; it stops at a None
Call ==
  /\ pc = "idle"
  /\ ArgReady
  /\ fn' = script[sp].fn
  /\ input_v' = IF script[sp].arg = "prev" THEN results[Len(results)].val
                ELSE input
  /\ pc' = "entry"
  /\ v' = <<>>
  /\ length' = 0
  /\ iend' = UZero
  /\ i' = 0 /\ j' = 0 /\ k' = 0
  /\ offset' = 0 /\ lag' = 0 /\ ngroups' = 0 /\ group' = 0 /\ base' = 0
  /\ UNCHANGED <<harness, sp, results, bret>>

Return(r) ==
  /\ results' = Append(results, r)
  /\ sp' = sp + 1
  /\ pc' = "idle"

\* a panic ends the call without a return value; nothing runs after it
Panic ==
  /\ pc' = "panicked"
  /\ UNCHANGED <<sp, results>>

InBounds(s, x) == x >= 0 /\ x < Len(s)

\* (s[a], s[b]) = (x, y) on a 0-based Vec
Assign2(s, a, x, b, y) ==
  [p \in 1..Len(s) |-> IF p = b + 1 THEN y ELSE IF p = a + 1 THEN x ELSE s[p]]

(***************************************************************************)
(* sequency                                                                *)
(***************************************************************************)
\* the swap written as two assignments, which loses v[i]
PermSwap_sequential(s, a, b) == Assign2(s, a, s[b+1], b, s[b+1])

\* (v[i], v[j]) = (v[j], v[i])
PermSwap(s, a, b) == Assign2(s, a, s[b+1], b, s[a+1])

\* the loop test with a strict comparison
PermWhileTest_strict(kk, jj) == kk < jj

\* while k <= j
PermWhileTest(kk, jj) == kk <= jj

\* the butterfly without the parity branch
SeqPair_uniform(s, g, a, b) ==
  Assign2(s, a, s[a+1] + s[b+1], b, s[a+1] - s[b+1])

\* the butterfly of one pair; odd groups subtract first
SeqPair(s, g, a, b) ==
  IF g % 2 = 1
  THEN Assign2(s, a, s[a+1] - s[b+1], b, s[a+1] + s[b+1])
  ELSE Assign2(s, a, s[a+1] + s[b+1], b, s[a+1] - s[b+1])

\* length, the working copy, the power_of_2 gate and the bound length - 2
SeqEntry ==
  /\ fn = "sequency" /\ pc = "entry"
  /\ length' = Len(input_v)
  /\ v' = input_v
  /\ \E p \in P2OfLen[Len(input_v)] :
       IF p.panic
       THEN Panic /\ UNCHANGED <<j, iend, i>>
       ELSE IF p.ret
       THEN \E o \in PermBound[Len(input_v)] :
              IF o.panic
              THEN Panic /\ j' = 0 /\ UNCHANGED <<iend, i>>
              ELSE /\ j' = 0
                   /\ iend' = o.val
                   /\ i' = 0
                   /\ pc' = "perm_for"
                   /\ UNCHANGED <<sp, results>>
       ELSE Return(None) /\ UNCHANGED <<j, iend, i>>
  /\ UNCHANGED <<harness, bret, fn, input_v, k, offset, lag, ngroups, group, base>>

\* for i in 0..(length - 2): the swap and the start of the mask
PermFor ==
  /\ fn = "sequency" /\ pc = "perm_for"
  /\ IF ULess(Bits(i), iend)
     THEN IF i < j /\ ~(InBounds(v, i) /\ InBounds(v, j))
          THEN Panic /\ UNCHANGED <<v, k, offset>>
          ELSE /\ v' = IF i < j THEN PermSwap(v, i, j) ELSE v
               /\ k' = length \div 2
               /\ pc' = "perm_while"
               /\ UNCHANGED <<sp, results, offset>>
     ELSE /\ offset' = length
          /\ pc' = "bfly_while"
          /\ UNCHANGED <<sp, results, v, k>>
  /\ UNCHANGED <<harness, bret, fn, input_v, length, iend, i, j,
                 lag, ngroups, group, base>>

\* while k <= j { j -= k; k >>= 1 }  j += k
\* With j = 0 and k = 0 (length 1 behind a wrapped bound) the body changes
\* nothing and the test stays true: the step leaves every variable as it
\* is, which is the loop of the code running forever.
PermWhile ==
  /\ fn = "sequency" /\ pc = "perm_while"
  /\ IF PermWhileTest(k, j)
     THEN /\ j' = j - k
          /\ k' = k \div 2
          /\ UNCHANGED <<pc, i>>
     ELSE /\ j' = j + k
          /\ i' = i + 1
          /\ pc' = "perm_for"
          /\ UNCHANGED k
  /\ UNCHANGED <<harness, sp, results, bret, fn, input_v, v, length, iend,
                 offset, lag, ngroups, group, base>>

\* while offset > 1
SeqBflyWhile ==
  /\ fn = "sequency" /\ pc = "bfly_while"
  /\ IF offset > 1
     THEN /\ lag' = offset \div 2
          /\ ngroups' = length \div offset
          /\ group' = 0
          /\ pc' = "bfly_group"
          /\ UNCHANGED <<sp, results>>
     ELSE /\ Return(Some(v))
          /\ UNCHANGED <<lag, ngroups, group>>
  /\ UNCHANGED <<harness, bret, fn, input_v, v, length, iend, i, j, k,
                 offset, base>>

\* for group in 0..ngroups; offset = lag after the last group
SeqBflyGroup ==
  /\ fn = "sequency" /\ pc = "bfly_group"
  /\ IF group < ngroups
     THEN /\ i' = 0
          /\ pc' = "bfly_i"
          /\ UNCHANGED offset
     ELSE /\ offset' = lag
          /\ pc' = "bfly_while"
          /\ UNCHANGED i
  /\ UNCHANGED <<harness, sp, results, bret, fn, input_v, v, length, iend,
                 j, k, lag, ngroups, group, base>>

\* for i in 0..lag: one pair
SeqBflyI ==
  /\ fn = "sequency" /\ pc = "bfly_i"
  /\ IF i < lag
     THEN LET jn == i + group * offset
              kn == jn + lag
          IN IF ~(InBounds(v, jn) /\ InBounds(v, kn))
             THEN Panic /\ j' = jn /\ k' = kn /\ UNCHANGED <<v, i, group>>
             ELSE /\ j' = jn
                  /\ k' = kn
                  /\ v' = SeqPair(v, group, jn, kn)
                  /\ i' = i + 1
                  /\ UNCHANGED <<pc, sp, results, group>>
     ELSE /\ group' = group + 1
          /\ pc' = "bfly_group"
          /\ UNCHANGED <<sp, results, v, i, j, k>>
  /\ UNCHANGED <<harness, bret, fn, input_v, length, iend,
                 offset, lag, ngroups, base>>

(***************************************************************************)
(* hadamard                                                                *)
(***************************************************************************)
\* the butterfly with sum and difference exchanged
HadPair_exchanged(s, a, b) == Assign2(s, a, s[a+1] - s[b+1], b, s[a+1] + s[b+1])

\* (v[j], v[k]) = (v[j] + v[k], v[j] - v[k])
HadPair(s, a, b) == Assign2(s, a, s[a+1] + s[b+1], b, s[a+1] - s[b+1])

HadEntry ==
  /\ fn = "hadamard" /\ pc = "entry"
  /\ length' = Len(input_v)
  /\ v' = input_v
  /\ \E p \in P2OfLen[Len(input_v)] :
       IF p.panic
       THEN Panic /\ UNCHANGED lag
       ELSE IF p.ret
       THEN /\ lag' = 1
            /\ pc' = "had_while"
            /\ UNCHANGED <<sp, results>>
       ELSE Return(None) /\ UNCHANGED lag
  /\ UNCHANGED <<harness, bret, fn, input_v, iend, i, j, k, offset,
                 ngroups, group, base>>

\* while lag < length
HadWhile ==
  /\ fn = "hadamard" /\ pc = "had_while"
  /\ IF lag < length
     THEN /\ offset' = lag * 2
          /\ ngroups' = length \div (lag * 2)
          /\ group' = 0
          /\ pc' = "had_group"
          /\ UNCHANGED <<sp, results>>
     ELSE /\ Return(Some(v))
          /\ UNCHANGED <<offset, ngroups, group>>
  /\ UNCHANGED <<harness, bret, fn, input_v, v, length, iend, i, j, k,
                 lag, base>>

\* for group in 0..ngroups; lag = offset after the last group
HadGroup ==
  /\ fn = "hadamard" /\ pc = "had_group"
  /\ IF group < ngroups
     THEN /\ base' = 0
          /\ pc' = "had_base"
          /\ UNCHANGED lag
     ELSE /\ lag' = offset
          /\ pc' = "had_while"
          /\ UNCHANGED base
  /\ UNCHANGED <<harness, sp, results, bret, fn, input_v, v, length, iend,
                 i, j, k, offset, ngroups, group>>

\* for base in 0..lag: one pair
HadBase ==
  /\ fn = "hadamard" /\ pc = "had_base"
  /\ IF base < lag
     THEN LET jn == base + group * offset
              kn == jn + lag
          IN IF ~(InBounds(v, jn) /\ InBounds(v, kn))
             THEN Panic /\ UNCHANGED <<v, base, group>>
             ELSE /\ v' = HadPair(v, jn, kn)
                  /\ base' = base + 1
                  /\ UNCHANGED <<pc, sp, results, group>>
     ELSE /\ group' = group + 1
          /\ pc' = "had_group"
          /\ UNCHANGED <<sp, results, v, base>>
  /\ UNCHANGED <<harness, bret, fn, input_v, length, iend, i, j, k,
                 offset, lag, ngroups>>

(***************************************************************************)
(* scale and the direct call of power_of_2                                 *)
(***************************************************************************)
\* Some(v.iter().map(|&x| f64::from(x) / (length as f64)).collect())
scale(s) == Some([p \in 1..Len(s) |-> F64Div(s[p], Len(s))])

ScaleCall ==
  /\ fn = "scale" /\ pc = "entry"
  /\ length' = Len(input_v)
  /\ Return(scale(input_v))
  /\ UNCHANGED <<harness, bret, fn, input_v, v, iend, i, j, k,
                 offset, lag, ngroups, group, base>>

PowerOf2Call ==
  /\ fn = "power_of_2" /\ pc = "entry"
  /\ \E p \in P2OfWord[word] :
       IF p.panic
       THEN Panic /\ UNCHANGED bret
       ELSE /\ bret' = <<p.ret>>
            /\ pc' = "idle"
            /\ sp' = sp + 1
            /\ UNCHANGED results
  /\ UNCHANGED <<harness, fn, input_v, v, length, iend, i, j, k,
                 offset, lag, ngroups, group, base>>

Next ==
  \/ Call
  \/ SeqEntry
  \/ PermFor
  \/ PermWhile
  \/ SeqBflyWhile
  \/ SeqBflyGroup
  \/ SeqBflyI
  \/ HadEntry
  \/ HadWhile
  \/ HadGroup
  \/ HadBase
  \/ ScaleCall
  \/ PowerOf2Call

Spec == Init /\ [][Next]_vars

\* the calls are straight-line code on one thread: a step that can be taken
\* is taken
FairSpec == Spec /\ WF_vars(Next)

(***************************************************************************)
(* Reference definitions: powers of two, bit reversal, Gray code, the      *)
(* Hadamard matrix and the Walsh functions                                 *)
(***************************************************************************)
IsPow2(x) == \E m \in 0..MaxLen : x = 2^m
Log2(x) == CHOOSE m \in 0..MaxLen : x = 2^m

RECURSIVE BitRev(_, _)
\* the m-bit reversal of x
BitRev(x, m) ==
  IF m = 0 THEN 0 ELSE (x % 2) * 2^(m-1) + BitRev(x \div 2, m - 1)

RECURSIVE AndNat(_, _)
AndNat(a, c) ==
  IF a = 0 \/ c = 0 THEN 0
  ELSE (a % 2) * (c % 2) + 2 * AndNat(a \div 2, c \div 2)

RECURSIVE XorNat(_, _)
XorNat(a, c) ==
  IF a = 0 /\ c = 0 THEN 0
  ELSE ((a + c) % 2) + 2 * XorNat(a \div 2, c \div 2)

RECURSIVE Parity(_)
Parity(x) == IF x = 0 THEN 0 ELSE (x + Parity(x \div 2)) % 2

Gray(x) == XorNat(x, x \div 2)

\* entry (r, c) of the natural-ordered Hadamard matrix: (-1)^popcount(r AND c)
HSign(r, c) == IF Parity(AndNat(r, c)) = 0 THEN 1 ELSE -1

RECURSIVE RowDot(_, _, _)
\* the sum over positions p.. of HSign(r, p) * s[p]
RowDot(s, r, p) ==
  IF p >= Len(s) THEN 0 ELSE HSign(r, p) * s[p+1] + RowDot(s, r, p + 1)

\* the natural-ordered Walsh-Hadamard transform of s
WHT(s) == [q \in 1..Len(s) |-> RowDot(s, q - 1, 0)]

SignChanges(r, len) ==
  Cardinality({c \in 0..(len - 2) : HSign(r, c) # HSign(r, c + 1)})

LogLens == {m \in 0..MaxLen : 2^m <= MaxLen}

\* for length 2^m, the rows of the Hadamard matrix with exactly p sign changes
WalshRows ==
  [m \in LogLens |-> [p \in 0..(2^m - 1) |->
     {r \in 0..(2^m - 1) : SignChanges(r, 2^m) = p}]]

WalshUnique ==
  \A m \in LogLens : \A p \in 0..(2^m - 1) : Cardinality(WalshRows[m][p]) = 1

\* the row that is the Walsh function w_p
WalshRow(m, p) == CHOOSE r \in WalshRows[m][p] : TRUE

RECURSIVE WalshDot(_, _, _, _)
\* the sum over positions p.. of s[p] * w_p[q]
WalshDot(s, m, q, p) ==
  IF p >= Len(s) THEN 0
  ELSE s[p+1] * HSign(WalshRow(m, p), q) + WalshDot(s, m, q, p + 1)

\* the sequency-ordered Walsh transform of s
SeqWHT(s) == [q \in 1..Len(s) |-> WalshDot(s, Log2(Len(s)), q - 1, 0)]

Impulse(len, p) == [q \in 1..len |-> IF q = p + 1 THEN 1 ELSE 0]

\* the last call made has returned to the caller
Returned(f) == pc = "idle" /\ fn = f /\ Len(results) >= 1
Last == results[Len(results)]
InTransform == fn \in {"sequency", "hadamard"}

(***************************************************************************)
(* Claims                                                                  *)
(***************************************************************************)
IsRoundTrip == script \in {RoundTrip("sequency"), RoundTrip("hadamard")}

RoundTripDone ==
  /\ pc = "idle"
  /\ Len(results) = 3
  /\ results[1].some /\ results[2].some /\ results[3].some
  /\ results[2].val = [q \in 1..Len(input) |-> Len(input) * input[q]]
  /\ results[3].val = [q \in 1..Len(input) |-> <<input[q], 1>>]

\* C1: for every power-of-two length n, 1 included, and both transforms,
\* transforming v twice yields n * v element by element and scaling that
\* yields v again.
C1_RoundTrip == (IsRoundTrip /\ IsPow2(Len(input))) ~> RoundTripDone

\* the part of C1 that the code does satisfy: a round trip that completes
\* has produced n * v and then v
RoundTripExact ==
  (IsRoundTrip /\ pc = "idle" /\ Len(results) = 3) => RoundTripDone

RoundTripExact_witness ==
  /\ script = RoundTrip("sequency") /\ RoundTripDone
  /\ Len(input) = 8 /\ input # [q \in 1..8 |-> 0]

\* C2: on a length that is not a power of two (0 and 3 included) sequency
\* and hadamard return None; they never panic and never reach the code that
\* indexes the sequence.
C2_InvalidLength ==
  (InTransform /\ ~IsPow2(Len(input_v))) =>
     /\ pc \in {"entry", "idle"}
     /\ pc = "idle" => (Len(results) >= 1 /\ Last = None)

C2_witness ==
  /\ Returned("sequency") /\ Len(input_v) = 3 /\ Last = None

\* C3: on a length-1 sequence both transforms return Some(input) and the
\* call never takes length - 2 below zero: it neither panics nor enters the
\* permutation loop with a wrapped bound.
C3_LengthOne ==
  (InTransform /\ Len(input_v) = 1) =>
     /\ pc # "panicked"
     /\ pc \notin {"perm_for", "perm_while"}
     /\ pc = "idle" => (Len(results) >= 1 /\ Last = Some(input_v))

\* C4: every call of sequency or hadamard, whatever the length and the
\* elements, comes to an end with a returned Some or None.
C4_Terminates == (InTransform /\ pc = "entry") ~> (pc = "idle")

\* C5: for a power-of-two length n >= 2, hadamard(v)[k] is the sum over i of
\* (-1)^popcount(k AND i) * v[i].
C5_HadamardIsWHT ==
  (Returned("hadamard") /\ IsPow2(Len(input_v)) /\ Len(input_v) >= 2) =>
     Last = Some(WHT(input_v))

C5_witness ==
  /\ Returned("hadamard")
  /\ input_v = Impulse(8, 7)
  /\ Last = Some(<<1, -1, -1, 1, -1, 1, 1, -1>>)

\* C6: for a power-of-two length n >= 2, sequency(v)[k] is the sum over p of
\* v[p] * w_p[k], w_p being the one row of the Hadamard matrix with exactly
\* p sign changes.
C6_SequencyIsWalsh ==
  (Returned("sequency") /\ IsPow2(Len(input_v)) /\ Len(input_v) >= 2) =>
     /\ WalshUnique
     /\ Last = Some(SeqWHT(input_v))

C6_witness ==
  /\ Returned("sequency")
  /\ input_v = Impulse(8, 6)
  /\ Last = Some(<<1, -1, 1, -1, -1, 1, -1, 1>>)

PopCount(w) == Cardinality({b \in BitIdx : w[b] = 1})

\* C7: power_of_2 returns on every usize, true exactly for the words with
\* one bit set, and never panics on n - 1.
C7_PowerOf2 ==
  (fn = "power_of_2") =>
     /\ pc # "panicked"
     /\ pc = "idle" => (bret = <<PopCount(word) = 1>>)

C7_witness ==
  /\ fn = "power_of_2" /\ pc = "idle"
  /\ word = OneBit(32) /\ bret = <<TRUE>>

\* C8: scale of an empty sequence reports the failure (None), not a present
\* sequence.
C8_ScaleEmpty ==
  (Returned("scale") /\ Len(input_v) = 0) => ~Last.some

\* C9: in sequency on length n = 2^m >= 2, at the start of iteration i of the
\* permutation loop j is the m-bit reversal of i, the mask k stays above 0,
\* i and j stay in 0..n-1, and after the loop the working copy holds
\* input[bitrev_m(p)] at every position p.
C9_BitReversal ==
  (fn = "sequency" /\ IsPow2(Len(input_v)) /\ Len(input_v) >= 2) =>
     /\ pc # "panicked"
     /\ (pc = "perm_for" /\ i < length - 2) =>
          /\ j = BitRev(i, Log2(length))
          /\ i \in 0..(length - 1) /\ j \in 0..(length - 1)
     /\ pc = "perm_while" =>
          /\ k >= 1
          /\ i \in 0..(length - 1) /\ j \in 0..(length - 1)
     /\ ((pc = "perm_for" /\ i >= length - 2)
          \/ (pc = "bfly_while" /\ offset = length)) =>
          v = [q \in 1..length |-> input_v[BitRev(q - 1, Log2(length)) + 1]]

C9_witness ==
  /\ fn = "sequency" /\ pc = "perm_for" /\ length = 8 /\ i = 6
  /\ v # input_v
  /\ v = [q \in 1..8 |-> input_v[BitRev(q - 1, 3) + 1]]

\* C10: for a power-of-two length n = 2^m >= 2, sequency(v)[k] is
\* hadamard(v)[bitrev_m(k XOR (k >> 1))] for every k.
C10_SequencyReordersHadamard ==
  (script = Compare /\ IsPow2(Len(input)) /\ Len(input) >= 2
     /\ pc = "idle" /\ Len(results) = 2) =>
     /\ results[1].some /\ results[2].some
     /\ results[2].val =
          [q \in 1..Len(input) |->
             results[1].val[BitRev(Gray(q - 1), Log2(Len(input))) + 1]]

C10_witness ==
  /\ script = Compare /\ pc = "idle" /\ Len(results) = 2
  /\ Len(input) = 8
  /\ results[1].some /\ results[2].some
  /\ results[1].val # results[2].val

====
